---- MODULE Spec2Model ----
(***************************************************************************)
(* The SSE stream clients of the dashboard: RunEventStream (events,        *)
(* deduplicated by id, resumed by timestamp) and RunOutputStream (output   *)
(* chunks, resumed by offset), with the reconnect/backoff logic each       *)
(* carries, driven by an event loop that owns the EventSource objects and  *)
(* the pending timers.                                                     *)
(***************************************************************************)
EXTENDS Integers, Sequences, FiniteSets, TLC

\* ---------------------------------------------------------------- constants
INITIAL_BACKOFF_MS == 1000
MAX_BACKOFF_MS == 30000
BACKOFF_MULTIPLIER == 2

\* the null of eventSource / reconnectTimeout (handles are positive)
NULL == 0

\* ---------------------------------------------------------------- bounds
\* event identities are 1..NumEventIds
NumEventIds == 2
\* event timestamps (and connect() arguments) are 0..MaxTimestamp
MaxTimestamp == 2
\* chunk offsets are 0..MaxOffset
MaxOffset == 2
\* chunk contents have 0..MaxContentLen characters
MaxContentLen == 2
\* the server of the end-to-end runs holds NumServerEvents events
NumServerEvents == 3
\* the end-to-end runs see at most MaxErrors transport errors
MaxErrors == 2
\* consecutive transport errors are counted up to MaxConsecutiveErrors
MaxConsecutiveErrors == 7
\* the bytes of output the server of the end-to-end output runs holds
MaxOutputBytes == 3

\* ---------------------------------------------------------------- state
VARIABLES
    instance,               \* the class the consumer constructed
    options,                \* the optional sinks passed at construction
    ev_eventSource,         \* RunEventStream.eventSource
    ev_backoff,             \* RunEventStream.backoff
    ev_reconnectTimeout,    \* RunEventStream.reconnectTimeout
    ev_seenEventIds,        \* RunEventStream.seenEventIds
    ev_connected,           \* RunEventStream._connected
    ev_lastEventTimestamp,  \* RunEventStream._lastEventTimestamp
    out_eventSource,        \* RunOutputStream.eventSource
    out_backoff,            \* RunOutputStream.backoff
    out_reconnectTimeout,   \* RunOutputStream.reconnectTimeout
    out_connected,          \* RunOutputStream._connected
    out_lastOffset,         \* RunOutputStream._lastOffset
    transports,             \* the EventSource objects created and not yet closed
    timers,                 \* the timers set and neither fired nor cleared
    calls,                  \* the sink invocations made by the last step, in order
    lastOp,                 \* the last step: the operation or signal and its input
    delivered,              \* the event ids passed to onEvent so far, in order
    maxEndSeen,             \* the largest end offset of the chunks parsed so far
    serverEvents,           \* the events the server of the run holds, in emission order
    serverOutput,           \* the output bytes the server of the run holds, in order
    output,                 \* the consumer's output: the byte positions of the contents
                            \* passed to onOutput, concatenated
    requested,              \* the resume value of the connect() that created the
                            \* stream's transport (0 when none was passed)
    closed,                 \* the EventSource disconnect() closed last: its handlers
                            \* are still attached
    errors                  \* the transport errors signalled so far (counted when bounded)

evFields == <<ev_eventSource, ev_backoff, ev_reconnectTimeout, ev_seenEventIds,
              ev_connected, ev_lastEventTimestamp>>
outFields == <<out_eventSource, out_backoff, out_reconnectTimeout, out_connected,
               out_lastOffset>>
server == <<serverEvents, errors, serverOutput, output, requested, closed>>
vars == <<instance, options, evFields, outFields, transports, timers, calls, lastOp,
          delivered, maxEndSeen, server>>

\* ---------------------------------------------------------------- helpers
Min(a, b) == IF a < b THEN a ELSE b

\* a fresh handle: the event loop never hands out one that is still live
NewId(S) == CHOOSE n \in 1..(Cardinality(S) + 1) : \A x \in S : x.id # n

\* an optional numeric argument: <<>> is undefined, <<x>> is x
Optional(S) == {<<>>} \cup {<<x>> : x \in S}

EventIds == 1..NumEventIds
Timestamps == 0..MaxTimestamp
Events == [id : EventIds, timestamp : Timestamps]

\* the text of a message: a JSON object, or text JSON.parse rejects
Malformed == [wellFormed |-> FALSE]
EventMessages == {[wellFormed |-> TRUE, data |-> e] : e \in Events} \cup {Malformed}

StepIds == {"s1", "s2"}
Contents == UNION {[1..n -> {"x"}] : n \in 0..MaxContentLen}
Chunks == [step_id : StepIds, offset : 0..MaxOffset, content : Contents]
ChunkMessages == {[wellFormed |-> TRUE, data |-> c] : c \in Chunks} \cup {Malformed}

OptionalSinks == {"onError", "onReconnect", "onOutput"}

\* an invocation of an optional sink: nothing when it was not passed
Invoke(sink, call) == IF sink \in options THEN <<call>> ELSE <<>>

Called(sink) == \E i \in DOMAIN calls : calls[i][1] = sink

\* the step passed a value to onEvent or onOutput
SinkCalled(cs) == \E i \in DOMAIN cs : cs[i][1] \in {"onEvent", "onOutput"}

ReportError_dropped(kind) == <<>>

\* the catch block of onmessage: this.options.onError?.(err)
ReportError(kind) == Invoke("onError", <<"onError", kind>>)

\* EventSource.close(): the object is no longer active
Close(id) == {t \in transports : t.id # id}

ClearTimeout_forgotten(id) == timers

\* clearTimeout(handle)
ClearTimeout(id) == {tm \in timers : tm.id # id}

\* ---------------------------------------------------------------- RunEventStream
RunEventStream_url_whenDefined(afterTimestamp) ==
    [path |-> "events",
     params |-> IF afterTimestamp # <<>>
                THEN {<<"after", ToString(afterTimestamp[1])>>}
                ELSE {}]

\* the URL connect() builds: the path and the query parameters set on it
RunEventStream_url(afterTimestamp) ==
    [path |-> "events",
     params |-> IF afterTimestamp # <<>> /\ afterTimestamp[1] > 0
                THEN {<<"after", ToString(afterTimestamp[1])>>}
                ELSE {}]

RunEventStream_connect_unguarded(afterTimestamp) ==
    LET id == NewId(transports) IN
    /\ transports' = transports \cup
           {[id |-> id, owner |-> "RunEventStream",
             url |-> RunEventStream_url(afterTimestamp),
             readyState |-> "connecting", sent |-> 0]}
    /\ ev_eventSource' = id

\* connect(afterTimestamp): the part on eventSource and the event loop
RunEventStream_connect(afterTimestamp) ==
    IF ev_eventSource # NULL
    THEN UNCHANGED <<ev_eventSource, transports>>
    ELSE LET id == NewId(transports) IN
         /\ transports' = transports \cup
                {[id |-> id, owner |-> "RunEventStream",
                  url |-> RunEventStream_url(afterTimestamp),
                  readyState |-> "connecting", sent |-> 0]}
         /\ ev_eventSource' = id

\* the delay the next timer is set with after a timer fired
IncreaseBackoff(b) == Min(b * BACKOFF_MULTIPLIER, MAX_BACKOFF_MS)

RunEventStream_scheduleReconnect_whenConnected ==
    IF ev_reconnectTimeout # NULL \/ ~ev_connected
    THEN UNCHANGED <<ev_reconnectTimeout, timers>>
    ELSE LET id == NewId(timers) IN
         /\ timers' = timers \cup
                {[id |-> id, owner |-> "RunEventStream", delay |-> ev_backoff]}
         /\ ev_reconnectTimeout' = id

\* scheduleReconnect()
RunEventStream_scheduleReconnect ==
    IF ev_reconnectTimeout # NULL
    THEN UNCHANGED <<ev_reconnectTimeout, timers>>
    ELSE LET id == NewId(timers) IN
         /\ timers' = timers \cup
                {[id |-> id, owner |-> "RunEventStream", delay |-> ev_backoff]}
         /\ ev_reconnectTimeout' = id

\* the consumer calls connect(afterTimestamp)
EvConnect(afterTimestamp) ==
    /\ instance = "RunEventStream"
    /\ RunEventStream_connect(afterTimestamp)
    /\ calls' = <<>>
    /\ lastOp' = [op |-> "connect", arg |-> afterTimestamp, held |-> ev_eventSource,
                 after |-> lastOp.op]
    /\ UNCHANGED <<instance, options, ev_backoff, ev_reconnectTimeout,
                   ev_seenEventIds, ev_connected, ev_lastEventTimestamp,
                   outFields, timers, delivered, maxEndSeen>>

\* eventSource.onopen of transport t
EvOpen(t) ==
    /\ t.owner = "RunEventStream"
    /\ t.readyState = "connecting"
    /\ transports' = (transports \ {t}) \cup {[t EXCEPT !.readyState = "open"]}
    /\ ev_connected' = TRUE
    /\ ev_backoff' = INITIAL_BACKOFF_MS
    /\ calls' = <<>>
    /\ lastOp' = [op |-> "open", arg |-> t.id]
    /\ UNCHANGED <<instance, options, ev_eventSource, ev_reconnectTimeout,
                   ev_seenEventIds, ev_lastEventTimestamp, outFields, timers,
                   delivered, maxEndSeen>>

AlreadySeen_never(id) == FALSE

\* seenEventIds.has(id)
AlreadySeen(id) == id \in ev_seenEventIds

TrackTimestamp_next(timestamp) == timestamp + 1

TrackTimestamp_latest(timestamp) == timestamp

\* the value _lastEventTimestamp takes on an accepted event with this timestamp
TrackTimestamp(timestamp) ==
    IF timestamp > ev_lastEventTimestamp THEN timestamp ELSE ev_lastEventTimestamp

RunEventStream_onmessage_filtering(raw, sinkThrows) ==
    IF ~raw.wellFormed
    THEN /\ calls' = ReportError("parse")
         /\ UNCHANGED <<ev_seenEventIds, ev_lastEventTimestamp, delivered>>
    ELSE LET data == raw.data IN
         IF AlreadySeen(data.id) \/ data.timestamp < ev_lastEventTimestamp
         THEN /\ calls' = <<>>
              /\ UNCHANGED <<ev_seenEventIds, ev_lastEventTimestamp, delivered>>
         ELSE /\ ev_seenEventIds' = ev_seenEventIds \cup {data.id}
              /\ ev_lastEventTimestamp' = TrackTimestamp(data.timestamp)
              /\ delivered' = Append(delivered, data.id)
              /\ calls' = <<<<"onEvent", data>>>> \o
                     (IF sinkThrows THEN ReportError("sink") ELSE <<>>)

RunEventStream_onmessage_markingAfter(raw, sinkThrows) ==
    IF ~raw.wellFormed
    THEN /\ calls' = ReportError("parse")
         /\ UNCHANGED <<ev_seenEventIds, ev_lastEventTimestamp, delivered>>
    ELSE LET data == raw.data IN
         IF AlreadySeen(data.id)
         THEN /\ calls' = <<>>
              /\ UNCHANGED <<ev_seenEventIds, ev_lastEventTimestamp, delivered>>
         ELSE /\ delivered' = Append(delivered, data.id)
              /\ calls' = <<<<"onEvent", data>>>> \o
                     (IF sinkThrows THEN ReportError("sink") ELSE <<>>)
              /\ IF sinkThrows
                 THEN UNCHANGED <<ev_seenEventIds, ev_lastEventTimestamp>>
                 ELSE /\ ev_seenEventIds' = ev_seenEventIds \cup {data.id}
                      /\ ev_lastEventTimestamp' = TrackTimestamp(data.timestamp)

\* the onmessage handler on the text raw; onEvent throws when sinkThrows
RunEventStream_onmessage(raw, sinkThrows) ==
    IF ~raw.wellFormed
    THEN /\ calls' = ReportError("parse")
         /\ UNCHANGED <<ev_seenEventIds, ev_lastEventTimestamp, delivered>>
    ELSE LET data == raw.data IN
         IF AlreadySeen(data.id)
         THEN /\ calls' = <<>>
              /\ UNCHANGED <<ev_seenEventIds, ev_lastEventTimestamp, delivered>>
         ELSE /\ ev_seenEventIds' = ev_seenEventIds \cup {data.id}
              /\ ev_lastEventTimestamp' = TrackTimestamp(data.timestamp)
              /\ delivered' = Append(delivered, data.id)
              /\ calls' = <<<<"onEvent", data>>>> \o
                     (IF sinkThrows THEN ReportError("sink") ELSE <<>>)

\* eventSource.onmessage of transport t with the text raw
EvMessage(t, raw) ==
    /\ t.owner = "RunEventStream"
    /\ t.readyState = "open"
    /\ \E sinkThrows \in BOOLEAN :
          /\ RunEventStream_onmessage(raw, sinkThrows)
          /\ lastOp' = [op |-> "message", arg |-> raw,
                        threw |-> sinkThrows /\ SinkCalled(calls')]
    /\ UNCHANGED <<instance, options, ev_eventSource, ev_backoff,
                   ev_reconnectTimeout, ev_connected, outFields, transports,
                   timers, maxEndSeen>>

EvError_reporting(t) ==
    /\ t.owner = "RunEventStream"
    /\ ev_connected' = FALSE
    /\ transports' = Close(ev_eventSource)
    /\ ev_eventSource' = NULL
    /\ RunEventStream_scheduleReconnect
    /\ calls' = ReportError("transport")
    /\ lastOp' = [op |-> "error",
                 arg |-> [pending |-> ev_reconnectTimeout, readyState |-> t.readyState]]
    /\ UNCHANGED <<instance, options, ev_backoff, ev_seenEventIds,
                   ev_lastEventTimestamp, outFields, delivered, maxEndSeen>>

\* eventSource.onerror of transport t
EvError(t) ==
    /\ t.owner = "RunEventStream"
    /\ ev_connected' = FALSE
    /\ transports' = Close(ev_eventSource)
    /\ ev_eventSource' = NULL
    /\ RunEventStream_scheduleReconnect
    /\ calls' = <<>>
    /\ lastOp' = [op |-> "error",
                 arg |-> [pending |-> ev_reconnectTimeout, readyState |-> t.readyState]]
    /\ UNCHANGED <<instance, options, ev_backoff, ev_seenEventIds,
                   ev_lastEventTimestamp, outFields, delivered, maxEndSeen>>

EvDisconnect_keepsConnected ==
    /\ instance = "RunEventStream"
    /\ IF ev_reconnectTimeout # NULL
       THEN /\ timers' = ClearTimeout(ev_reconnectTimeout)
            /\ ev_reconnectTimeout' = NULL
       ELSE UNCHANGED <<timers, ev_reconnectTimeout>>
    /\ IF ev_eventSource # NULL
       THEN /\ transports' = Close(ev_eventSource)
            /\ ev_eventSource' = NULL
       ELSE UNCHANGED <<transports, ev_eventSource>>
    /\ calls' = <<>>
    /\ lastOp' = [op |-> "disconnect", arg |-> <<ev_reconnectTimeout, ev_eventSource>>]
    /\ UNCHANGED <<instance, options, ev_backoff, ev_seenEventIds, ev_connected,
                   ev_lastEventTimestamp, outFields, delivered, maxEndSeen>>

EvDisconnect_forgetting ==
    /\ instance = "RunEventStream"
    /\ IF ev_reconnectTimeout # NULL
       THEN /\ timers' = ClearTimeout(ev_reconnectTimeout)
            /\ ev_reconnectTimeout' = NULL
       ELSE UNCHANGED <<timers, ev_reconnectTimeout>>
    /\ IF ev_eventSource # NULL
       THEN /\ transports' = Close(ev_eventSource)
            /\ ev_eventSource' = NULL
       ELSE UNCHANGED <<transports, ev_eventSource>>
    /\ ev_connected' = FALSE
    /\ ev_seenEventIds' = {}
    /\ calls' = <<>>
    /\ lastOp' = [op |-> "disconnect", arg |-> <<ev_reconnectTimeout, ev_eventSource>>]
    /\ UNCHANGED <<instance, options, ev_backoff,
                   ev_lastEventTimestamp, outFields, delivered, maxEndSeen>>

\* disconnect()
EvDisconnect ==
    /\ instance = "RunEventStream"
    /\ IF ev_reconnectTimeout # NULL
       THEN /\ timers' = ClearTimeout(ev_reconnectTimeout)
            /\ ev_reconnectTimeout' = NULL
       ELSE UNCHANGED <<timers, ev_reconnectTimeout>>
    /\ IF ev_eventSource # NULL
       THEN /\ transports' = Close(ev_eventSource)
            /\ ev_eventSource' = NULL
       ELSE UNCHANGED <<transports, ev_eventSource>>
    /\ ev_connected' = FALSE
    /\ calls' = <<>>
    /\ lastOp' = [op |-> "disconnect", arg |-> <<ev_reconnectTimeout, ev_eventSource>>]
    /\ UNCHANGED <<instance, options, ev_backoff, ev_seenEventIds,
                   ev_lastEventTimestamp, outFields, delivered, maxEndSeen>>

\* the callback of timer tm set by scheduleReconnect; onReconnect throws when
\* sinkThrows, which ends the callback there
EvTimer(tm, sinkThrows) ==
    /\ tm.owner = "RunEventStream"
    /\ timers' = timers \ {tm}
    /\ ev_reconnectTimeout' = NULL
    /\ calls' = Invoke("onReconnect", <<"onReconnect">>)
    /\ IF sinkThrows /\ "onReconnect" \in options
       THEN UNCHANGED <<ev_eventSource, transports, ev_backoff>>
       ELSE /\ RunEventStream_connect(<<ev_lastEventTimestamp>>)
            /\ ev_backoff' = IncreaseBackoff(ev_backoff)
    /\ lastOp' = [op |-> "timer", arg |-> tm.delay,
                 threw |-> sinkThrows /\ "onReconnect" \in options]
    /\ UNCHANGED <<instance, options, ev_seenEventIds, ev_connected,
                   ev_lastEventTimestamp, outFields, delivered, maxEndSeen>>

\* ---------------------------------------------------------------- RunOutputStream
\* the URL connect() builds: the path and the query parameters set on it
RunOutputStream_url(offset) ==
    [path |-> "output",
     params |-> IF offset # <<>> /\ offset[1] > 0
                THEN {<<"offset", ToString(offset[1])>>}
                ELSE {}]

\* connect(offset): the part on eventSource and the event loop
RunOutputStream_connect(offset) ==
    IF out_eventSource # NULL
    THEN UNCHANGED <<out_eventSource, transports>>
    ELSE LET id == NewId(transports) IN
         /\ transports' = transports \cup
                {[id |-> id, owner |-> "RunOutputStream",
                  url |-> RunOutputStream_url(offset),
                  readyState |-> "connecting", sent |-> 0]}
         /\ out_eventSource' = id

\* the delay the next timer is set with after a timer fired
OutIncreaseBackoff_additive(b) == Min(b + INITIAL_BACKOFF_MS, MAX_BACKOFF_MS)

OutIncreaseBackoff(b) == Min(b * BACKOFF_MULTIPLIER, MAX_BACKOFF_MS)

RunOutputStream_scheduleReconnect_unguarded ==
    LET id == NewId(timers) IN
    /\ timers' = timers \cup
           {[id |-> id, owner |-> "RunOutputStream", delay |-> out_backoff]}
    /\ out_reconnectTimeout' = id

\* scheduleReconnect()
RunOutputStream_scheduleReconnect ==
    IF out_reconnectTimeout # NULL
    THEN UNCHANGED <<out_reconnectTimeout, timers>>
    ELSE LET id == NewId(timers) IN
         /\ timers' = timers \cup
                {[id |-> id, owner |-> "RunOutputStream", delay |-> out_backoff]}
         /\ out_reconnectTimeout' = id

\* the consumer calls connect(offset)
OutConnect(offset) ==
    /\ instance = "RunOutputStream"
    /\ RunOutputStream_connect(offset)
    /\ calls' = <<>>
    /\ lastOp' = [op |-> "connect", arg |-> offset, held |-> out_eventSource,
                 after |-> lastOp.op]
    /\ UNCHANGED <<instance, options, out_backoff, out_reconnectTimeout,
                   out_connected, out_lastOffset, evFields, timers, delivered,
                   maxEndSeen>>

\* eventSource.onopen of transport t
OutOpen(t) ==
    /\ t.owner = "RunOutputStream"
    /\ t.readyState = "connecting"
    /\ transports' = (transports \ {t}) \cup {[t EXCEPT !.readyState = "open"]}
    /\ out_connected' = TRUE
    /\ out_backoff' = INITIAL_BACKOFF_MS
    /\ calls' = <<>>
    /\ lastOp' = [op |-> "open", arg |-> t.id]
    /\ UNCHANGED <<instance, options, out_eventSource, out_reconnectTimeout,
                   out_lastOffset, evFields, timers, delivered, maxEndSeen>>

\* content.length: the UTF-16 code units of the string the bytes of content
\* decode to. "x" is a one-byte character; "lead" and "cont" are the two bytes of
\* a two-byte character, which is one code unit; a "cont" byte that starts the
\* content has no character to belong to and decodes to one replacement character
Length(content) ==
    Cardinality({i \in DOMAIN content : content[i] # "cont" \/ i = 1})

TrackOffset_assign(endOffset) == endOffset

\* the value _lastOffset takes on a chunk that ends at endOffset
TrackOffset(endOffset) ==
    IF endOffset > out_lastOffset THEN endOffset ELSE out_lastOffset

RunOutputStream_onmessage_uncaught(raw, sinkThrows) ==
    IF ~raw.wellFormed
    THEN /\ calls' = ReportError("parse")
         /\ UNCHANGED <<out_lastOffset, maxEndSeen>>
    ELSE LET data == raw.data
             endOffset == data.offset + Length(data.content)
         IN  /\ out_lastOffset' = TrackOffset(endOffset)
             /\ maxEndSeen' = IF endOffset > maxEndSeen THEN endOffset ELSE maxEndSeen
             /\ calls' = Invoke("onOutput", <<"onOutput", data>>)

RunOutputStream_onmessage_deduping(raw, sinkThrows) ==
    IF ~raw.wellFormed
    THEN /\ calls' = ReportError("parse")
         /\ UNCHANGED <<out_lastOffset, maxEndSeen>>
    ELSE LET data == raw.data
             endOffset == data.offset + Length(data.content)
         IN  IF endOffset <= out_lastOffset
             THEN /\ calls' = <<>>
                  /\ maxEndSeen' = IF endOffset > maxEndSeen THEN endOffset ELSE maxEndSeen
                  /\ UNCHANGED out_lastOffset
             ELSE /\ out_lastOffset' = TrackOffset(endOffset)
                  /\ maxEndSeen' = IF endOffset > maxEndSeen THEN endOffset ELSE maxEndSeen
                  /\ calls' = Invoke("onOutput", <<"onOutput", data>>) \o
                         (IF sinkThrows /\ "onOutput" \in options
                          THEN ReportError("sink") ELSE <<>>)

\* the onmessage handler on the text raw; onOutput throws when sinkThrows
RunOutputStream_onmessage(raw, sinkThrows) ==
    IF ~raw.wellFormed
    THEN /\ calls' = ReportError("parse")
         /\ UNCHANGED <<out_lastOffset, maxEndSeen>>
    ELSE LET data == raw.data
             endOffset == data.offset + Length(data.content)
         IN  /\ out_lastOffset' = TrackOffset(endOffset)
             /\ maxEndSeen' = IF endOffset > maxEndSeen THEN endOffset ELSE maxEndSeen
             /\ calls' = Invoke("onOutput", <<"onOutput", data>>) \o
                    (IF sinkThrows /\ "onOutput" \in options
                     THEN ReportError("sink") ELSE <<>>)

\* eventSource.onmessage of transport t with the text raw
OutMessage(t, raw) ==
    /\ t.owner = "RunOutputStream"
    /\ t.readyState = "open"
    /\ \E sinkThrows \in BOOLEAN :
          /\ RunOutputStream_onmessage(raw, sinkThrows)
          /\ lastOp' = [op |-> "message", arg |-> raw,
                        threw |-> sinkThrows /\ SinkCalled(calls')]
    /\ UNCHANGED <<instance, options, out_eventSource, out_backoff,
                   out_reconnectTimeout, out_connected, evFields, transports,
                   timers, delivered>>

OutError_reporting(t) ==
    /\ t.owner = "RunOutputStream"
    /\ out_connected' = FALSE
    /\ transports' = Close(out_eventSource)
    /\ out_eventSource' = NULL
    /\ RunOutputStream_scheduleReconnect
    /\ calls' = ReportError("transport")
    /\ lastOp' = [op |-> "error",
                 arg |-> [pending |-> out_reconnectTimeout, readyState |-> t.readyState]]
    /\ UNCHANGED <<instance, options, out_backoff, out_lastOffset, evFields,
                   delivered, maxEndSeen>>

\* eventSource.onerror of transport t
OutError(t) ==
    /\ t.owner = "RunOutputStream"
    /\ out_connected' = FALSE
    /\ transports' = Close(out_eventSource)
    /\ out_eventSource' = NULL
    /\ RunOutputStream_scheduleReconnect
    /\ calls' = <<>>
    /\ lastOp' = [op |-> "error",
                 arg |-> [pending |-> out_reconnectTimeout, readyState |-> t.readyState]]
    /\ UNCHANGED <<instance, options, out_backoff, out_lastOffset, evFields,
                   delivered, maxEndSeen>>

OutDisconnect_resetting ==
    /\ instance = "RunOutputStream"
    /\ IF out_reconnectTimeout # NULL
       THEN /\ timers' = ClearTimeout(out_reconnectTimeout)
            /\ out_reconnectTimeout' = NULL
       ELSE UNCHANGED <<timers, out_reconnectTimeout>>
    /\ IF out_eventSource # NULL
       THEN /\ transports' = Close(out_eventSource)
            /\ out_eventSource' = NULL
       ELSE UNCHANGED <<transports, out_eventSource>>
    /\ out_connected' = FALSE
    /\ out_backoff' = INITIAL_BACKOFF_MS
    /\ calls' = <<>>
    /\ lastOp' = [op |-> "disconnect", arg |-> <<out_reconnectTimeout, out_eventSource>>]
    /\ UNCHANGED <<instance, options, out_lastOffset, evFields,
                   delivered, maxEndSeen>>

\* disconnect()
OutDisconnect ==
    /\ instance = "RunOutputStream"
    /\ IF out_reconnectTimeout # NULL
       THEN /\ timers' = ClearTimeout(out_reconnectTimeout)
            /\ out_reconnectTimeout' = NULL
       ELSE UNCHANGED <<timers, out_reconnectTimeout>>
    /\ IF out_eventSource # NULL
       THEN /\ transports' = Close(out_eventSource)
            /\ out_eventSource' = NULL
       ELSE UNCHANGED <<transports, out_eventSource>>
    /\ out_connected' = FALSE
    /\ calls' = <<>>
    /\ lastOp' = [op |-> "disconnect", arg |-> <<out_reconnectTimeout, out_eventSource>>]
    /\ UNCHANGED <<instance, options, out_backoff, out_lastOffset, evFields,
                   delivered, maxEndSeen>>

OutTimer_fromStart(tm, sinkThrows) ==
    /\ tm.owner = "RunOutputStream"
    /\ timers' = timers \ {tm}
    /\ out_reconnectTimeout' = NULL
    /\ calls' = Invoke("onReconnect", <<"onReconnect">>)
    /\ IF sinkThrows /\ "onReconnect" \in options
       THEN UNCHANGED <<out_eventSource, transports, out_backoff>>
       ELSE /\ RunOutputStream_connect(<<>>)
            /\ out_backoff' = OutIncreaseBackoff(out_backoff)
    /\ lastOp' = [op |-> "timer", arg |-> tm.delay,
                 threw |-> sinkThrows /\ "onReconnect" \in options]
    /\ UNCHANGED <<instance, options, out_connected, out_lastOffset, evFields,
                   delivered, maxEndSeen>>

\* the callback of timer tm set by scheduleReconnect; onReconnect throws when
\* sinkThrows, which ends the callback there
OutTimer(tm, sinkThrows) ==
    /\ tm.owner = "RunOutputStream"
    /\ timers' = timers \ {tm}
    /\ out_reconnectTimeout' = NULL
    /\ calls' = Invoke("onReconnect", <<"onReconnect">>)
    /\ IF sinkThrows /\ "onReconnect" \in options
       THEN UNCHANGED <<out_eventSource, transports, out_backoff>>
       ELSE /\ RunOutputStream_connect(<<out_lastOffset>>)
            /\ out_backoff' = OutIncreaseBackoff(out_backoff)
    /\ lastOp' = [op |-> "timer", arg |-> tm.delay,
                 threw |-> sinkThrows /\ "onReconnect" \in options]
    /\ UNCHANGED <<instance, options, out_connected, out_lastOffset, evFields,
                   delivered, maxEndSeen>>

\* ---------------------------------------------------------------- specification
InitStream ==
    /\ instance \in {"RunEventStream", "RunOutputStream"}
    /\ options \in SUBSET (IF instance = "RunEventStream"
                           THEN {"onError", "onReconnect"} ELSE OptionalSinks)
    /\ ev_eventSource = NULL
    /\ ev_backoff = INITIAL_BACKOFF_MS
    /\ ev_reconnectTimeout = NULL
    /\ ev_seenEventIds = {}
    /\ ev_connected = FALSE
    /\ ev_lastEventTimestamp = 0
    /\ out_eventSource = NULL
    /\ out_backoff = INITIAL_BACKOFF_MS
    /\ out_reconnectTimeout = NULL
    /\ out_connected = FALSE
    /\ out_lastOffset = 0
    /\ transports = {}
    /\ timers = {}
    /\ calls = <<>>
    /\ lastOp = [op |-> "new", arg |-> <<>>]
    /\ delivered = <<>>
    /\ maxEndSeen = 0

Init ==
    /\ InitStream
    /\ serverEvents = <<>>
    /\ errors = 0
    /\ serverOutput = <<>>
    /\ output = <<>>
    /\ requested = 0
    /\ closed = {}

\* the consumer calls connect() with or without a resume argument
Connects ==
    /\ \/ \E a \in Optional(Timestamps) : EvConnect(a)
       \/ \E a \in Optional(0..MaxOffset) : OutConnect(a)
    /\ UNCHANGED server

\* the consumer calls disconnect()
Disconnects ==
    /\ EvDisconnect \/ OutDisconnect
    /\ UNCHANGED server

\* an active transport signals open
Opens ==
    /\ \E t \in transports : EvOpen(t) \/ OutOpen(t)
    /\ UNCHANGED server

\* an open transport delivers a message
Messages ==
    /\ \E t \in transports :
          \/ \E raw \in EventMessages : EvMessage(t, raw)
          \/ \E raw \in ChunkMessages : OutMessage(t, raw)
    /\ UNCHANGED server

\* an active transport signals an error
Errors ==
    /\ \E t \in transports : EvError(t) \/ OutError(t)
    /\ UNCHANGED server

\* a pending timer fires
TimerFires ==
    /\ \E tm \in timers : \E sinkThrows \in BOOLEAN :
          EvTimer(tm, sinkThrows) \/ OutTimer(tm, sinkThrows)
    /\ UNCHANGED server

Next == Connects \/ Disconnects \/ Opens \/ Messages \/ Errors \/ TimerFires

Spec == Init /\ [][Next]_vars

\* ---------------------------------------------------------------- end to end
\* The events resource as the stream's contract assumes it: events are emitted in
\* non-decreasing timestamp order, and a request with after=t is answered with
\* every event whose timestamp is >= t, all of them without the parameter.
NonDecreasing(seq) == \A i, j \in DOMAIN seq : i <= j => seq[i].timestamp <= seq[j].timestamp

ServerRuns ==
    {run \in [1..NumServerEvents -> [id : 1..NumServerEvents, timestamp : Timestamps]] :
        /\ \A i \in DOMAIN run : run[i].id = i
        /\ NonDecreasing(run)}

\* the number a query parameter's text stands for
ParseNumber(text) == CHOOSE n \in 0..(MaxTimestamp + MaxOffset + MaxContentLen) : ToString(n) = text

\* the sequence a request for url is answered with
Replay(url) ==
    IF \E p \in url.params : p[1] = "after"
    THEN LET after == ParseNumber((CHOOSE p \in url.params : p[1] = "after")[2])
         IN  SelectSeq(serverEvents, LAMBDA e : e.timestamp >= after)
    ELSE serverEvents

\* the server sends the next event of transport t's answer
E2ESend(t) ==
    /\ t.owner = "RunEventStream"
    /\ t.readyState = "open"
    /\ t.sent < Len(Replay(t.url))
    /\ LET raw == [wellFormed |-> TRUE, data |-> Replay(t.url)[t.sent + 1]] IN
       /\ \E sinkThrows \in BOOLEAN :
             /\ RunEventStream_onmessage(raw, sinkThrows)
             /\ lastOp' = [op |-> "message", arg |-> raw,
                           threw |-> sinkThrows /\ SinkCalled(calls')]
    /\ transports' = (transports \ {t}) \cup {[t EXCEPT !.sent = t.sent + 1]}
    /\ UNCHANGED <<instance, options, ev_eventSource, ev_backoff,
                   ev_reconnectTimeout, ev_connected, outFields, timers,
                   maxEndSeen, server>>

E2EConnect == EvConnect(<<>>) /\ UNCHANGED server

E2EOpen == \E t \in transports : EvOpen(t) /\ UNCHANGED server

E2EMessage == \E t \in transports : E2ESend(t)

E2EError ==
    /\ errors < MaxErrors
    /\ \E t \in transports : EvError(t)
    /\ errors' = errors + 1
    /\ UNCHANGED <<serverEvents, serverOutput, output, requested, closed>>

InitE2E ==
    /\ InitStream
    /\ instance = "RunEventStream"
    /\ serverEvents \in ServerRuns
    /\ errors = 0
    /\ serverOutput = <<>>
    /\ output = <<>>
    /\ requested = 0
    /\ closed = {}

NextE2E == E2EConnect \/ E2EOpen \/ E2EMessage \/ E2EError \/ TimerFires

\* the event loop runs every signal and timer that is due
SpecE2E ==
    /\ InitE2E /\ [][NextE2E]_vars
    /\ WF_vars(E2EOpen) /\ WF_vars(E2EMessage) /\ WF_vars(TimerFires)

\* ---------------------------------------------------------------- end to end, output
\* The output resource as the stream's contract assumes it: the run's output is
\* a sequence of bytes, a chunk carries the byte position it starts at, and a
\* request with offset=k is answered with the bytes from position k onward, all
\* of them without the parameter. The output is UTF-8 text.
ServerOutputs ==
    {bytes \in [1..MaxOutputBytes -> {"x", "lead", "cont"}] :
        \A i \in DOMAIN bytes :
           /\ bytes[i] = "lead" => (i < Len(bytes) /\ bytes[i + 1] = "cont")
           /\ bytes[i] = "cont" => (i > 1 /\ bytes[i - 1] = "lead")}

\* the byte position the answer to a request for url starts at
ReplayOutputFrom(url) ==
    IF \E p \in url.params : p[1] = "offset"
    THEN ParseNumber((CHOOSE p \in url.params : p[1] = "offset")[2])
    ELSE 0

\* what onOutput does with the chunks of the step: setOutput(prev + chunk.content)
HandleOutput(prev, cs) ==
    IF \E i \in DOMAIN cs : cs[i][1] = "onOutput"
    THEN LET chunk == (cs[CHOOSE i \in DOMAIN cs : cs[i][1] = "onOutput"])[2]
         IN  prev \o [i \in 1..Len(chunk.content) |-> chunk.offset + i - 1]
    ELSE prev

\* the server sends the next chunk of transport t's answer: up to MaxContentLen
\* bytes that end with a whole character
E2EOutSend(t) ==
    /\ t.owner = "RunOutputStream"
    /\ t.readyState = "open"
    /\ LET start == ReplayOutputFrom(t.url) + t.sent IN
       \E n \in 1..MaxContentLen :
          /\ start + n <= Len(serverOutput)
          /\ start + n < Len(serverOutput) => serverOutput[start + n + 1] # "cont"
          /\ LET raw == [wellFormed |-> TRUE,
                         data |-> [step_id |-> "s1", offset |-> start,
                                   content |-> SubSeq(serverOutput, start + 1, start + n)]]
             IN  \E sinkThrows \in BOOLEAN :
                    /\ RunOutputStream_onmessage(raw, sinkThrows)
                    /\ lastOp' = [op |-> "message", arg |-> raw,
                                  threw |-> sinkThrows /\ SinkCalled(calls')]
          /\ transports' = (transports \ {t}) \cup {[t EXCEPT !.sent = t.sent + n]}
    /\ output' = HandleOutput(output, calls')
    /\ UNCHANGED <<instance, options, out_eventSource, out_backoff,
                   out_reconnectTimeout, out_connected, evFields, timers,
                   delivered, serverEvents, errors, serverOutput, requested, closed>>

\* the consumer connects once, as useRunOutput does: stream.connect()
E2EOutConnect == lastOp.op = "new" /\ OutConnect(<<>>) /\ UNCHANGED server

E2EOutOpen == \E t \in transports : OutOpen(t) /\ UNCHANGED server

E2EOutMessage == \E t \in transports : E2EOutSend(t)

E2EOutError ==
    /\ errors < MaxErrors
    /\ \E t \in transports : OutError(t)
    /\ errors' = errors + 1
    /\ UNCHANGED <<serverEvents, serverOutput, output, requested, closed>>

InitE2EOut ==
    /\ InitStream
    /\ instance = "RunOutputStream"
    /\ serverEvents = <<>>
    /\ errors = 0
    /\ serverOutput \in ServerOutputs
    /\ output = <<>>
    /\ requested = 0
    /\ closed = {}

NextE2EOut == E2EOutConnect \/ E2EOutOpen \/ E2EOutMessage \/ E2EOutError \/ TimerFires

SpecE2EOut == InitE2EOut /\ [][NextE2EOut]_vars

\* ---------------------------------------------------------------- counted errors
\* The same steps, with errors counting the transport errors in a row since the
\* stream was new or a transport last opened; a disconnect() ends the count until
\* the next open, and so does a count beyond MaxConsecutiveErrors.
Uncounted == MaxConsecutiveErrors + 1

CountedOpen ==
    /\ \E t \in transports : EvOpen(t) \/ OutOpen(t)
    /\ errors' = 0
    /\ UNCHANGED <<serverEvents, serverOutput, output, requested, closed>>

CountedError ==
    /\ \E t \in transports : EvError(t) \/ OutError(t)
    /\ errors' = IF errors >= MaxConsecutiveErrors THEN Uncounted ELSE errors + 1
    /\ UNCHANGED <<serverEvents, serverOutput, output, requested, closed>>

CountedDisconnect ==
    /\ EvDisconnect \/ OutDisconnect
    /\ errors' = Uncounted
    /\ UNCHANGED <<serverEvents, serverOutput, output, requested, closed>>

NextCounted ==
    \/ Connects
    \/ CountedOpen
    \/ Messages
    \/ CountedError
    \/ CountedDisconnect
    \/ TimerFires

SpecCounted == Init /\ [][NextCounted]_vars

\* ---------------------------------------------------------------- requested resume
\* The steps of Spec, with requested holding the resume value the consumer
\* passed to the connect() that created a transport, until disconnect().
ResumeConnects ==
    /\ \/ \E a \in Optional(Timestamps) : EvConnect(a)
       \/ \E a \in Optional(0..MaxOffset) : OutConnect(a)
    /\ requested' = IF lastOp'.held # NULL THEN requested
                    ELSE IF lastOp'.arg = <<>> THEN 0 ELSE lastOp'.arg[1]
    /\ UNCHANGED <<serverEvents, errors, serverOutput, output, closed>>

ResumeDisconnects ==
    /\ EvDisconnect \/ OutDisconnect
    /\ requested' = 0
    /\ UNCHANGED <<serverEvents, errors, serverOutput, output, closed>>

NextResume ==
    \/ ResumeConnects
    \/ ResumeDisconnects
    \/ Opens
    \/ Messages
    \/ Errors
    \/ TimerFires

SpecResume == Init /\ [][NextResume]_vars

\* ---------------------------------------------------------------- late signals
\* The steps of Spec, with closed holding the EventSource the last disconnect()
\* closed, until the next connect(). disconnect() calls close() on it and drops
\* the reference; its onopen, onmessage and onerror stay attached, and a signal
\* of it that is delivered after the close runs them.
LateConnects ==
    /\ \/ \E a \in Optional(Timestamps) : EvConnect(a)
       \/ \E a \in Optional(0..MaxOffset) : OutConnect(a)
    /\ closed' = {}
    /\ UNCHANGED <<serverEvents, errors, serverOutput, output, requested>>

LateDisconnects ==
    /\ EvDisconnect \/ OutDisconnect
    /\ closed' = IF lastOp'.arg[2] # NULL
                 THEN {t \in transports : t.id = lastOp'.arg[2]}
                 ELSE closed
    /\ UNCHANGED <<serverEvents, errors, serverOutput, output, requested>>

\* onopen of the closed EventSource t
EvLateOpen(t) ==
    /\ t.owner = "RunEventStream"
    /\ t.readyState = "connecting"
    /\ ev_connected' = TRUE
    /\ ev_backoff' = INITIAL_BACKOFF_MS
    /\ calls' = <<>>
    /\ lastOp' = [op |-> "open", arg |-> t.id]
    /\ UNCHANGED <<instance, options, ev_eventSource, ev_reconnectTimeout,
                   ev_seenEventIds, ev_lastEventTimestamp, outFields, transports,
                   timers, delivered, maxEndSeen>>

\* onopen of the closed EventSource t
OutLateOpen(t) ==
    /\ t.owner = "RunOutputStream"
    /\ t.readyState = "connecting"
    /\ out_connected' = TRUE
    /\ out_backoff' = INITIAL_BACKOFF_MS
    /\ calls' = <<>>
    /\ lastOp' = [op |-> "open", arg |-> t.id]
    /\ UNCHANGED <<instance, options, out_eventSource, out_reconnectTimeout,
                   out_lastOffset, evFields, transports, timers, delivered,
                   maxEndSeen>>

\* one signal of the closed EventSource is delivered after disconnect()
LateSignals ==
    /\ \E t \in closed :
          \/ EvLateOpen(t) \/ OutLateOpen(t)
          \/ \E raw \in EventMessages : EvMessage(t, raw)
          \/ \E raw \in ChunkMessages : OutMessage(t, raw)
          \/ EvError(t) \/ OutError(t)
    /\ closed' = {}
    /\ UNCHANGED <<serverEvents, errors, serverOutput, output, requested>>

NextLate ==
    \/ LateConnects
    \/ LateDisconnects
    \/ Opens
    \/ Messages
    \/ Errors
    \/ TimerFires
    \/ LateSignals

SpecLate == Init /\ [][NextLate]_vars

\* ---------------------------------------------------------------- fair timers
\* The steps of Spec, with the event loop running every timer that is due.
SpecFair == Init /\ [][Next]_vars /\ WF_vars(TimerFires)

\* ---------------------------------------------------------------- claims
Range(f) == {f[i] : i \in DOMAIN f}

NoDuplicates(seq) == \A i, j \in DOMAIN seq : i # j => seq[i] # seq[j]

\* the last step was RunEventStream's onmessage on a well-formed event
EventMessageStep(op) ==
    /\ instance = "RunEventStream"
    /\ op.op = "message"
    /\ op.arg.wellFormed

\* C1: over any sequence of connect(), messages, transport errors, timer-driven
\* reconnects and disconnect(), no event id is passed to onEvent twice, and a
\* message whose id is already in seenEventIds invokes no sink and leaves
\* lastEventTimestamp as it was.
C1_DedupAtMostOnce ==
    /\ [](NoDuplicates(delivered))
    /\ [][(EventMessageStep(lastOp') /\ lastOp'.arg.data.id \in ev_seenEventIds)
            => /\ calls' = <<>>
               /\ delivered' = delivered
               /\ ev_lastEventTimestamp' = ev_lastEventTimestamp
               /\ ev_seenEventIds' = ev_seenEventIds]_vars

\* a message with an id delivered earlier arrived after a reconnect and was dropped
C1_Witness ==
    /\ EventMessageStep(lastOp)
    /\ calls = <<>>
    /\ lastOp.arg.data.id \in Range(delivered)
    /\ lastOp.arg.data.timestamp > ev_lastEventTimestamp
    /\ ev_backoff > INITIAL_BACKOFF_MS

ServerIds == [i \in DOMAIN serverEvents |-> serverEvents[i].id]

IsPrefix(a, b) == Len(a) <= Len(b) /\ \A i \in DOMAIN a : a[i] = b[i]

\* C2: against a server that emits in non-decreasing timestamp order and answers
\* after=t with every event of timestamp >= t, the events passed to onEvent are
\* always the server's events from the first on, each once, and when after finitely
\* many transport errors a transport stays held, every event of the server is
\* eventually passed to onEvent.
C2_EndToEndExactlyOnce ==
    /\ [](IsPrefix(delivered, ServerIds))
    /\ (<>[](ev_eventSource # NULL)) => <>(delivered = ServerIds)

\* after the errors the server redelivered an event, it was dropped, and all arrived
C2_Witness ==
    /\ errors = MaxErrors
    /\ delivered = ServerIds
    /\ \E t \in transports : t.url.params # {} /\ t.sent = Len(Replay(t.url)) /\ t.sent > 1

\* the fields both classes have, of the instance the consumer constructed
EventSourceField == IF instance = "RunEventStream" THEN ev_eventSource ELSE out_eventSource
ReconnectTimeoutField ==
    IF instance = "RunEventStream" THEN ev_reconnectTimeout ELSE out_reconnectTimeout
ConnectedField == IF instance = "RunEventStream" THEN ev_connected ELSE out_connected
BackoffField == IF instance = "RunEventStream" THEN ev_backoff ELSE out_backoff

\* C3: RunOutputStream's lastOffset is the largest offset + length(content) over
\* the chunks parsed so far (0 when there is none), and no step of any kind
\* (message, transport error, reconnect, disconnect(), connect()) lowers it.
C3_LastOffsetIsMaxEnd ==
    /\ [](instance = "RunOutputStream" => out_lastOffset = maxEndSeen)
    /\ [][out_lastOffset' >= out_lastOffset]_vars

\* after a reconnect, a chunk that ends below the cursor was processed
C3_Witness ==
    /\ instance = "RunOutputStream"
    /\ lastOp.op = "message"
    /\ lastOp.arg.wellFormed
    /\ lastOp.arg.data.offset + Len(lastOp.arg.data.content) < out_lastOffset
    /\ out_backoff > INITIAL_BACKOFF_MS

\* C6: at most one EventSource created by the stream is active at any time, it is
\* the one the eventSource field holds, and a transport error leaves none active.
C6_OneActiveTransport ==
    /\ Cardinality(transports) <= 1
    /\ \A t \in transports : t.id = EventSourceField /\ t.owner = instance
    /\ EventSourceField # NULL => transports # {}
    /\ lastOp.op = "error" => transports = {}

\* connect(MaxTimestamp) was called on a stream holding a transport of another URL
C6_Witness ==
    /\ lastOp.op = "connect"
    /\ lastOp.arg = <<MaxTimestamp>>
    /\ \E t \in transports : t.url.params = {} /\ t.readyState = "open"

\* C7: at most one reconnect timer is pending at any time, and a transport error
\* that arrives while one is pending leaves the pending timer and its delay as
\* they were.
C7_OneReconnectTimer ==
    /\ [](Cardinality(timers) <= 1)
    /\ [](\A tm \in timers : tm.id = ReconnectTimeoutField)
    /\ [][(lastOp'.op = "error" /\ timers # {}) => timers' = timers]_vars

\* a transport error arrived while a reconnect timer was pending
C7_Witness ==
    /\ lastOp.op = "error"
    /\ lastOp.arg.pending # NULL
    /\ timers # {}

\* disconnect() left no timer, no transport and connected = false
Disconnected ==
    /\ timers = {}
    /\ transports = {}
    /\ EventSourceField = NULL
    /\ ReconnectTimeoutField = NULL
    /\ ConnectedField = FALSE

\* C9: disconnect() can be called in every state; after it there is no pending
\* timer, no active transport and connected is false; a disconnect() that follows
\* a disconnect() changes nothing.
C9_DisconnectAnywhere ==
    /\ [](ENABLED (EvDisconnect \/ OutDisconnect))
    /\ [](lastOp.op = "disconnect" => Disconnected)
    /\ [][(lastOp.op = "disconnect" /\ lastOp'.op = "disconnect")
            => UNCHANGED <<evFields, outFields, transports, timers>>]_vars

\* disconnect() was called with a timer pending and a transport held
C9_Witness ==
    /\ lastOp.op = "disconnect"
    /\ lastOp.arg[1] # NULL
    /\ lastOp.arg[2] # NULL

\* C10: after a disconnect(), the next step is a call of the consumer: no timer
\* callback runs, onReconnect is not invoked, and a transport appears only by a
\* connect() of the consumer.
C10_DisconnectCancelsTimer ==
    [][lastOp.op = "disconnect"
        => /\ lastOp'.op \in {"connect", "disconnect"}
           /\ calls' = <<>>
           /\ transports' # {} => lastOp'.op = "connect"]_vars

\* disconnect() was called while only a reconnect timer was pending, after the
\* backoff had grown
C10_Witness ==
    /\ lastOp.op = "disconnect"
    /\ lastOp.arg[1] # NULL
    /\ lastOp.arg[2] = NULL
    /\ BackoffField > INITIAL_BACKOFF_MS

\* the last step was a transport error that set a reconnect timer
ErrorScheduledTimer == lastOp.op = "error" /\ lastOp.arg.pending = NULL

\* C4: when N transport errors come in a row, with no open and no disconnect()
\* between them, on a stream that was new or had just opened, the timer the N-th
\* error sets has the delay min(1000 * 2^(N-1), 30000).
C4_BackoffGrowth ==
    (ErrorScheduledTimer /\ errors \in 1..MaxConsecutiveErrors)
        => \A tm \in timers :
              tm.delay = Min(INITIAL_BACKOFF_MS * BACKOFF_MULTIPLIER^(errors - 1),
                             MAX_BACKOFF_MS)

\* C5: the timer set by the first error of a transport that had opened has the
\* delay 1000, whatever came before the open.
C5_ResetOnSuccess ==
    (ErrorScheduledTimer /\ errors = 1 /\ lastOp.arg.readyState = "open")
        => \A tm \in timers : tm.delay = INITIAL_BACKOFF_MS

\* C8: after a transport error, a new transport is eventually created unless the
\* consumer calls disconnect().
C8_EventuallyReconnects ==
    (lastOp.op = "error") ~> (transports # {} \/ lastOp.op = "disconnect")

\* the resource and the resume parameter of the instance the consumer constructed
ResourcePath == IF instance = "RunEventStream" THEN "events" ELSE "output"
ResumeName == IF instance = "RunEventStream" THEN "after" ELSE "offset"
Cursor == IF instance = "RunEventStream" THEN ev_lastEventTimestamp ELSE out_lastOffset

\* the request of url is for the stream's resource and resumes from x, or from
\* the start when x is <<>>
Requests(url, x) ==
    /\ url.path = ResourcePath
    /\ IF x = <<>>
       THEN url.params = {}
       ELSE /\ Cardinality(url.params) = 1
            /\ \A p \in url.params : p[1] = ResumeName /\ ParseNumber(p[2]) = x[1]

\* C11: a connect(x) of the consumer that creates a transport requests the
\* stream's resource with the resume parameter (after for events, offset for
\* output) set to x exactly when x is defined and greater than 0, and without
\* the parameter when x is undefined or 0.
C11_ResumeParameterInclusion ==
    [][(lastOp'.op = "connect" /\ lastOp'.held = NULL)
        => \E t \in transports' :
              /\ t \notin transports
              /\ transports' = transports \cup {t}
              /\ Requests(t.url, IF lastOp'.arg # <<>> /\ lastOp'.arg[1] > 0
                                 THEN lastOp'.arg ELSE <<>>)]_vars

\* connect(0) created a transport whose URL has no query parameter
C11_Witness ==
    /\ lastOp.op = "connect"
    /\ lastOp.held = NULL
    /\ lastOp.arg = <<0>>
    /\ \E t \in transports : t.url.params = {} /\ t.readyState = "connecting"

\* C12: a transport created by the timer callback requests the cursor as it
\* stands when the timer fires (after=lastEventTimestamp, offset=lastOffset),
\* without the parameter only when the cursor is 0.
C12_ReconnectUsesCursor ==
    [][(lastOp'.op = "timer" /\ transports' # transports)
        => \E t \in transports' :
              /\ t \notin transports
              /\ transports' = transports \cup {t}
              /\ Cursor' = Cursor
              /\ Requests(t.url, IF Cursor > 0 THEN <<Cursor>> ELSE <<>>)]_vars

\* after chunks up to the largest end offset, the timer reconnected from there
C12_Witness ==
    /\ instance = "RunOutputStream"
    /\ lastOp.op = "timer"
    /\ out_lastOffset = MaxOffset + MaxContentLen
    /\ \E t \in transports :
          /\ t.readyState = "connecting"
          /\ t.url.params = {<<"offset", ToString(MaxOffset + MaxContentLen)>>}

\* C13: connect() on a stream that holds a transport changes nothing: no
\* transport is created, and the held transport and its URL, the cursor, the
\* dedup set, the backoff, the pending timer and connected stay as they were,
\* whatever the argument.
C13_ConnectWhileHeldIsNoOp ==
    [][(lastOp'.op = "connect" /\ lastOp'.held # NULL)
        => /\ UNCHANGED <<evFields, outFields, transports, timers, delivered, maxEndSeen>>
           /\ calls' = <<>>]_vars

\* connect(MaxOffset) was called while a transport of another URL was held and a
\* reconnect timer was pending
C13_Witness ==
    /\ instance = "RunOutputStream"
    /\ lastOp.op = "connect"
    /\ lastOp.held # NULL
    /\ lastOp.arg = <<MaxOffset>>
    /\ timers # {}
    /\ \E t \in transports : t.url.params = {}

\* the invocations of sink in the step
CallsOf(sink) == {i \in DOMAIN calls : calls[i][1] = sink}

\* the step handled a message that JSON.parse rejected
ParseFailed(op) == op.op = "message" /\ ~op.arg.wellFormed

\* the step handled a message whose onEvent or onOutput threw
SinkThrew(op) == op.op = "message" /\ op.threw

\* C14: a message that fails to parse invokes onError (when one was passed) once
\* and nothing else: the fields, the transports and the timers are unchanged,
\* onEvent/onOutput is not invoked, and the transport it came on is still held
\* and open, so the next message on it is handled.
C14_ParseFailureIsPerMessage ==
    [][ParseFailed(lastOp')
        => /\ calls' = IF "onError" \in options
                       THEN <<<<"onError", "parse">>>> ELSE <<>>
           /\ UNCHANGED <<evFields, outFields, transports, timers, delivered, maxEndSeen>>
           /\ \E t \in transports' :
                 t.id = EventSourceField' /\ t.readyState = "open"]_vars

\* a malformed message was reported on a stream that had delivered an event and
\* still holds its open transport
C14_Witness ==
    /\ ParseFailed(lastOp)
    /\ calls = <<<<"onError", "parse">>>>
    /\ delivered # <<>>
    /\ ConnectedField
    /\ \E t \in transports : t.id = EventSourceField /\ t.readyState = "open"

\* C17: the handler of a transport error invokes no sink, neither onError nor
\* onEvent/onOutput; onReconnect is invoked by the timer callback only.
C17_TransportErrorNotReported ==
    /\ lastOp.op = "error" => calls = <<>>
    /\ Called("onReconnect") => lastOp.op = "timer"

\* a transport error on a stream that was passed onError and onReconnect set the
\* timer and called nothing
C17_Witness ==
    /\ lastOp.op = "error"
    /\ {"onError", "onReconnect"} \subseteq options
    /\ ErrorScheduledTimer
    /\ timers # {}
    /\ calls = <<>>

\* C18 as stated: every transport error on a stream constructed with onError
\* results in one onError invocation.
C18_TransportErrorInvokesOnError ==
    (lastOp.op = "error" /\ "onError" \in options) => Cardinality(CallsOf("onError")) = 1

\* C18 as amended: on a stream constructed with onError, onError is invoked by
\* the message handler only, once for a message that fails to parse or whose
\* sink throws, and by no other step, a transport error included.
C18_OnErrorFromOnmessageOnly ==
    "onError" \in options
        => /\ Called("onError") <=> (ParseFailed(lastOp) \/ SinkThrew(lastOp))
           /\ Cardinality(CallsOf("onError")) <= 1

\* an open transport of a stream with onError failed: connected was cleared
\* and onError was not invoked
C18_Witness ==
    /\ lastOp.op = "error"
    /\ lastOp.arg.readyState = "open"
    /\ "onError" \in options
    /\ ~ConnectedField
    /\ ~Called("onError")

\* C19 as stated: an exception thrown inside onEvent or onOutput is not
\* forwarded to onError.
C19_SinkErrorNotForwarded == SinkThrew(lastOp) => ~Called("onError")

\* C19 as amended: an exception thrown inside onEvent or onOutput is caught by
\* the message handler and passed to onError when one was passed; the message
\* has updated the cursor by then, and the transport, connected and the timers
\* are as before.
C19_SinkErrorForwarded ==
    [][SinkThrew(lastOp')
        => /\ Len(calls') = IF "onError" \in options THEN 2 ELSE 1
           /\ calls'[1][1] \in {"onEvent", "onOutput"}
           /\ calls'[1][2] = lastOp'.arg.data
           /\ "onError" \in options => calls'[2] = <<"onError", "sink">>
           /\ IF instance = "RunEventStream"
              THEN /\ lastOp'.arg.data.id \in ev_seenEventIds'
                   /\ ev_lastEventTimestamp' >= lastOp'.arg.data.timestamp
              ELSE out_lastOffset' >=
                       lastOp'.arg.data.offset + Length(lastOp'.arg.data.content)
           /\ UNCHANGED <<transports, timers>>
           /\ EventSourceField' = EventSourceField
           /\ ConnectedField' = ConnectedField]_vars

\* onOutput threw on a chunk and the exception was passed to onError
C19_Witness ==
    /\ instance = "RunOutputStream"
    /\ SinkThrew(lastOp)
    /\ Len(calls) = 2
    /\ calls[1][1] = "onOutput"
    /\ calls[2] = <<"onError", "sink">>
    /\ out_lastOffset > 0

\* the transports the step creates
NewTransports == transports' \ transports

\* C15: every invocation of onReconnect is made by a timer callback that then
\* creates exactly one new transport, and a timer callback that creates a
\* transport has invoked onReconnect exactly once before; stated for callbacks
\* in which onReconnect returns normally.
C15_OnReconnectPerAttempt ==
    [][/\ (Called("onReconnect")' /\ ~(lastOp'.op = "timer" /\ lastOp'.threw))
            => /\ lastOp'.op = "timer"
               /\ Cardinality(CallsOf("onReconnect")') = 1
               /\ Cardinality(NewTransports) = 1
               /\ transports \subseteq transports'
       /\ (lastOp'.op = "timer" /\ NewTransports # {} /\ "onReconnect" \in options)
            => calls' = <<<<"onReconnect">>>>]_vars

\* C20: RunEventStream passes each message to onEvent in the step that receives
\* it, exactly when it parses and its id has not been passed before, whatever
\* its timestamp; no other step passes anything to onEvent. So the sequence
\* passed to onEvent is the received sequence without the unparsable and the
\* already-seen messages, in the order received.
C20_InOrderDelivery ==
    [][instance = "RunEventStream"
        => IF lastOp'.op = "message" /\ lastOp'.arg.wellFormed
              /\ lastOp'.arg.data.id \notin Range(delivered)
           THEN /\ delivered' = Append(delivered, lastOp'.arg.data.id)
                /\ calls'[1] = <<"onEvent", lastOp'.arg.data>>
                /\ Cardinality(CallsOf("onEvent")') = 1
           ELSE /\ delivered' = delivered
                /\ CallsOf("onEvent")' = {}]_vars

\* the second event passed to onEvent is the one just received, although its
\* timestamp is below the cursor
C20_Witness ==
    /\ instance = "RunEventStream"
    /\ lastOp.op = "message"
    /\ lastOp.arg.wellFormed
    /\ Len(delivered) = 2
    /\ delivered[2] = lastOp.arg.data.id
    /\ lastOp.arg.data.timestamp < ev_lastEventTimestamp
    /\ calls[1] = <<"onEvent", lastOp.arg.data>>

\* C16: with a server that answers offset=k with the bytes from position k
\* onward, and only timer-driven reconnects, the concatenation of the contents
\* passed to onOutput is a prefix of the server's bytes: the byte positions
\* 0, 1, 2, ... in order, none twice and none skipped.
C16_EndToEndOutputPrefix ==
    /\ Len(output) <= Len(serverOutput)
    /\ \A i \in DOMAIN output : output[i] = i - 1

\* C21: RunOutputStream passes every chunk that parses to onOutput, once, in the
\* step that receives it, also when the chunk ends at or below the cursor; the
\* cursor becomes offset + length(content) when that exceeds it and is
\* unchanged otherwise, and no other step calls onOutput or moves the cursor.
C21_NoOutputDedup ==
    [][instance = "RunOutputStream"
        => IF lastOp'.op = "message" /\ lastOp'.arg.wellFormed
           THEN LET data == lastOp'.arg.data
                    endOffset == data.offset + Length(data.content)
                IN  /\ "onOutput" \in options
                         => /\ calls' # <<>>
                            /\ calls'[1] = <<"onOutput", data>>
                            /\ Cardinality(CallsOf("onOutput")') = 1
                    /\ out_lastOffset' =
                          IF endOffset > out_lastOffset THEN endOffset ELSE out_lastOffset
           ELSE /\ CallsOf("onOutput")' = {}
                /\ out_lastOffset' = out_lastOffset]_vars

\* a chunk that ends below the cursor was passed to onOutput
C21_Witness ==
    /\ instance = "RunOutputStream"
    /\ lastOp.op = "message"
    /\ lastOp.arg.wellFormed
    /\ lastOp.arg.data.content # <<>>
    /\ lastOp.arg.data.offset + Length(lastOp.arg.data.content) < out_lastOffset
    /\ calls = <<<<"onOutput", lastOp.arg.data>>>>

\* the step accepted an event as a non-duplicate
Accepts(op) ==
    /\ instance = "RunEventStream"
    /\ op.op = "message"
    /\ op.arg.wellFormed
    /\ op.arg.data.id \notin Range(delivered)

\* C22: lastEventTimestamp is 0 while no event has been accepted; an accepted
\* event sets it to the larger of its timestamp and the value before, and no
\* other step changes it. So it is the maximum timestamp of the accepted events
\* and never decreases.
C22_LastEventTimestampIsMax ==
    /\ [](delivered = <<>> => ev_lastEventTimestamp = 0)
    /\ [][/\ ev_lastEventTimestamp' =
                IF Accepts(lastOp') /\ lastOp'.arg.data.timestamp > ev_lastEventTimestamp
                THEN lastOp'.arg.data.timestamp
                ELSE ev_lastEventTimestamp
          /\ Accepts(lastOp') <=> delivered' # delivered]_vars

\* every id was accepted, the last with timestamp 0, and the cursor is the
\* largest timestamp
C22_Witness ==
    /\ instance = "RunEventStream"
    /\ lastOp.op = "message"
    /\ lastOp.arg.wellFormed
    /\ lastOp.arg.data.timestamp = 0
    /\ Len(delivered) = NumEventIds
    /\ delivered[NumEventIds] = lastOp.arg.data.id
    /\ ev_lastEventTimestamp = MaxTimestamp

\* the transport the stream holds has signalled open
HeldTransportOpen ==
    \E t \in transports : t.id = EventSourceField /\ t.readyState = "open"

\* C23: connected is true exactly when the held transport has signalled open
\* (and has since neither failed nor been disconnected, either of which drops
\* it): false on a new stream, while connecting, while only a reconnect timer
\* is pending and after disconnect().
C23_ConnectedIffOpen ==
    /\ ConnectedField <=> (EventSourceField # NULL /\ HeldTransportOpen)
    /\ lastOp.op \in {"new", "disconnect", "error"} => ~ConnectedField

\* an open transport was disconnected and connected is false
C23_Witness ==
    /\ lastOp.op = "disconnect"
    /\ lastOp.arg[2] # NULL
    /\ ~ConnectedField
    /\ transports = {}
    /\ delivered # <<>>

BackoffValues == {1000, 2000, 4000, 8000, 16000, 30000}

\* C24: the backoff value is always one of 1000, 2000, 4000, 8000, 16000 and
\* 30000 ms, and only two kinds of step change it: a transport open sets it to
\* 1000 and a firing reconnect timer sets it to min(2 * value, 30000); errors,
\* messages, connect() and disconnect() leave it as it is.
C24_BackoffValues ==
    /\ [](BackoffField \in BackoffValues)
    /\ [][BackoffField' # BackoffField
            => \/ lastOp'.op = "open" /\ BackoffField' = 1000
               \/ /\ lastOp'.op = "timer"
                  /\ BackoffField' = Min(2 * BackoffField, 30000)]_vars

\* disconnect() on a stream whose backoff had reached the cap left it there
C24_Witness ==
    /\ lastOp.op = "disconnect"
    /\ BackoffField = 30000
    /\ transports = {}
    /\ timers = {}

\* C25: in no reachable state does the stream have a pending reconnect timer
\* and an active transport at the same time.
C25_TimerExcludesTransport ==
    ~(ReconnectTimeoutField # NULL /\ EventSourceField # NULL)

\* the reconnect state of the stream: transport held, connected, timer pending
\* and the backoff value
ReconnectState ==
    [held |-> EventSourceField # NULL,
     connected |-> ConnectedField,
     timer |-> ReconnectTimeoutField # NULL,
     backoff |-> BackoffField]

\* the reconnect state after the step op from the reconnect state p, for
\* either stream type
ReconnectStep(p, op) ==
    CASE op.op = "connect" -> [p EXCEPT !.held = TRUE]
      [] op.op = "disconnect" ->
            [p EXCEPT !.held = FALSE, !.connected = FALSE, !.timer = FALSE]
      [] op.op = "open" -> [p EXCEPT !.connected = TRUE, !.backoff = 1000]
      [] op.op = "error" ->
            [p EXCEPT !.held = FALSE, !.connected = FALSE, !.timer = TRUE]
      [] op.op = "message" -> p
      [] op.op = "timer" ->
            IF op.threw
            THEN [p EXCEPT !.timer = FALSE]
            ELSE [p EXCEPT !.held = TRUE, !.timer = FALSE,
                           !.backoff = Min(2 * p.backoff, 30000)]

\* C26: RunEventStream and RunOutputStream have the same reconnect state
\* machine: for both, the reconnect state after a step is the same function
\* ReconnectStep of the reconnect state before it and the step, and onReconnect
\* is invoked once by a timer step and by no other step. Both start from the
\* same reconnect state, so the same sequence of steps takes both through the
\* same reconnect states and onReconnect invocations.
C26_SameReconnectMachine ==
    /\ [](lastOp.op = "new"
            => ReconnectState = [held |-> FALSE, connected |-> FALSE, timer |-> FALSE,
                                 backoff |-> 1000])
    /\ [][/\ ReconnectState' = ReconnectStep(ReconnectState, lastOp')
          /\ Cardinality(CallsOf("onReconnect")') =
                IF lastOp'.op = "timer" /\ "onReconnect" \in options THEN 1 ELSE 0]_vars

\* the timer of a RunOutputStream fired for the third time in a row, invoked
\* onReconnect and created a transport
C26_Witness ==
    /\ instance = "RunOutputStream"
    /\ lastOp.op = "timer"
    /\ ~lastOp.threw
    /\ out_backoff = 8000
    /\ out_eventSource # NULL
    /\ calls = <<<<"onReconnect">>>>

\* C27: disconnect() and the connect() after it leave the dedup set, the cursor
\* and the backoff value as they were, and that connect() creates one new
\* transport; the dedup set never loses an id, so an event whose id was passed
\* to onEvent before is not passed again, whenever it arrives.
C27_ReusableAfterDisconnect ==
    [][/\ (lastOp'.op = "disconnect" \/ (lastOp'.op = "connect" /\ lastOp.op = "disconnect"))
            => UNCHANGED <<ev_seenEventIds, ev_lastEventTimestamp, out_lastOffset,
                           BackoffField>>
       /\ (lastOp'.op = "connect" /\ lastOp.op = "disconnect")
            => /\ Cardinality(transports') = 1
               /\ transports = {}
               /\ EventSourceField' # NULL
       /\ ev_seenEventIds \subseteq ev_seenEventIds'
       /\ Range(delivered) \subseteq ev_seenEventIds'
       /\ (instance = "RunEventStream" /\ lastOp'.op = "message"
           /\ lastOp'.arg.wellFormed /\ lastOp'.arg.data.id \in Range(delivered))
            => CallsOf("onEvent")' = {}]_vars

\* a RunEventStream that had delivered an event, moved its cursor and raised its
\* backoff was disconnected and connected again
C27_Witness ==
    /\ instance = "RunEventStream"
    /\ lastOp.op = "connect"
    /\ lastOp.after = "disconnect"
    /\ ev_seenEventIds # {}
    /\ ev_lastEventTimestamp > 0
    /\ ev_backoff > INITIAL_BACKOFF_MS
    /\ \E t \in transports : t.id = ev_eventSource /\ t.readyState = "connecting"

\* the stream holds an active transport or a pending reconnect timer
Alive == EventSourceField # NULL \/ ReconnectTimeoutField # NULL

\* the step is a callback in which a consumer sink threw
Threw(op) == op.op \in {"message", "timer"} /\ op.threw

\* C28: a connect() leaves the stream with an active transport, and every step
\* after it other than a disconnect() or a callback in which a sink throws
\* leaves it with an active transport or a pending reconnect timer. So from the
\* first connect() to the next disconnect() the stream is never without both,
\* provided no sink throws.
C28_NeverStuck ==
    [][/\ lastOp'.op = "connect" => EventSourceField' # NULL
       /\ (Alive /\ lastOp'.op # "disconnect" /\ ~Threw(lastOp')) => Alive']_vars

\* a second transport failed while the timer of the first failure was still
\* pending: no timer was set, the pending one remains
C28_Witness ==
    /\ lastOp.op = "error"
    /\ lastOp.arg.pending # NULL
    /\ EventSourceField = NULL
    /\ ReconnectTimeoutField # NULL
    /\ timers # {}

\* the resume value a request for url asks for: 0 without the parameter
ResumeValue(url) ==
    IF url.params = {} THEN 0
    ELSE ParseNumber((CHOOSE p \in url.params : p[1] = ResumeName)[2])

\* C29: after a connect(x) that created a transport, every transport a reconnect
\* timer creates before the next disconnect() requests a resume value of at
\* least x.
C29_ReconnectNotBeforeRequested ==
    [][(lastOp'.op = "timer" /\ NewTransports # {})
        => \A t \in NewTransports : ResumeValue(t.url) >= requested]_vars

\* C30: after disconnect() a step that is not a connect() leaves the stream
\* inert: connected stays false, the cursor, the dedup set, the backoff value
\* and the timer are unchanged and no sink is invoked, also when the step is a
\* signal of the transport that disconnect() closed.
C30_InertAfterDisconnect ==
    [][(lastOp.op = "disconnect" /\ lastOp'.op # "connect")
        => /\ ~ConnectedField'
           /\ UNCHANGED <<ev_lastEventTimestamp, out_lastOffset, ev_seenEventIds,
                          BackoffField, ReconnectTimeoutField, timers>>
           /\ calls' = <<>>]_vars

\* C31: when onEvent or onOutput throws, the exception is the last thing the
\* step passes on, to onError; the held transport is still open and no timer is
\* set or cleared; and the message counts as processed: the event's id is in
\* the dedup set and the cursor has its advanced value. An event that was
\* passed to onEvent before, whether or not onEvent threw, changes nothing and
\* is not passed again when it is redelivered.
C31_ThrownMessageIsProcessed ==
    [][/\ SinkThrew(lastOp')
            => /\ calls' # <<>>
               /\ "onError" \in options => calls'[Len(calls')] = <<"onError", "sink">>
               /\ Cardinality(CallsOf("onError")') <= 1
               /\ HeldTransportOpen'
               /\ UNCHANGED <<transports, timers>>
               /\ ReconnectTimeoutField' = ReconnectTimeoutField
               /\ IF instance = "RunEventStream"
                  THEN /\ lastOp'.arg.data.id \in ev_seenEventIds'
                       /\ lastOp'.arg.data.id \notin ev_seenEventIds
                       /\ ev_lastEventTimestamp' =
                             IF lastOp'.arg.data.timestamp > ev_lastEventTimestamp
                             THEN lastOp'.arg.data.timestamp
                             ELSE ev_lastEventTimestamp
                  ELSE out_lastOffset' >= out_lastOffset
       /\ (instance = "RunEventStream" /\ lastOp'.op = "message"
           /\ lastOp'.arg.wellFormed /\ lastOp'.arg.data.id \in Range(delivered))
            => /\ calls' = <<>>
               /\ UNCHANGED <<ev_seenEventIds, ev_lastEventTimestamp, delivered>>]_vars

\* onEvent threw on an event that moved the cursor; the exception went to
\* onError, the event is in the dedup set and the transport is open with no
\* timer pending
C31_Witness ==
    /\ instance = "RunEventStream"
    /\ SinkThrew(lastOp)
    /\ calls = <<<<"onEvent", lastOp.arg.data>>, <<"onError", "sink">>>>
    /\ lastOp.arg.data.id \in ev_seenEventIds
    /\ ev_lastEventTimestamp = lastOp.arg.data.timestamp
    /\ ev_lastEventTimestamp > 0
    /\ HeldTransportOpen
    /\ timers = {}

====
